---------------------------- MODULE Spec2Model ----------------------------
(***************************************************************************)
(* A model of the recursive-descent JSON parser of src/src/main.rs          *)
(* (struct Lexer).  The parser is a single-threaded state machine over a    *)
(* one-character-lookahead cursor (Peekable<Chars>).                        *)
(*                                                                          *)
(*  - input, eof, pos, fed : the cursor.  The text is revealed lazily: the  *)
(*    environment (Feed) appends the next piece of text, or reports the end *)
(*    of the text, only when the parser peeks beyond what is revealed, so   *)
(*    that the reachable states are the parses of every text of the         *)
(*    language and not of every text times every position.                  *)
(*  - pc : the function whose loop iteration runs next.                     *)
(*  - stack : the frames of the active next_array / next_object calls.      *)
(*  - str, lit, num : the locals of next_string, expect_next, next_number.  *)
(*  - ret : the Result a call of next_value has just returned.              *)
(***************************************************************************)
EXTENDS Integers, Sequences, FiniteSets, TLC

VARIABLES input, eof, pos, fed, pc, stack, str, lit, num, ret

vars == <<input, eof, pos, fed, pc, stack, str, lit, num, ret>>

(***************************************************************************)
(* Bounds of the model.                                                     *)
(***************************************************************************)
\* The number of pieces of text the environment feeds to the full parser.
MaxTokens == 6

\* The number of characters the environment feeds to the number parser.
MaxNumLen == 6

\* The number of further exponent digits '9' it may feed after those.
MaxNines == 8

\* The number of characters the environment feeds to the keyword and string
\* parsers.
MaxLeafLen == 6

(***************************************************************************)
(* Characters.  A character is a one-character string; a character that     *)
(* has no ASCII spelling is written by its code point.                      *)
(***************************************************************************)
\* Option::None of Peekable::peek / Iterator::next.
None == "None"

QUOTE == "\""

BACKSLASH == "\\"

\* char::is_ascii_whitespace: space, tab, line feed, form feed, carriage return.
IsAsciiWhitespace(c) == c \in {" ", "\t", "\n", "\f", "\r"}

\* Characters with the Unicode White_Space property that are not ASCII
\* whitespace in Rust's sense: vertical tab and no-break space.
UnicodeOnlyWhitespace == {"U+000B", "U+00A0"}

\* char::is_whitespace.
IsWhitespace(c) == IsAsciiWhitespace(c) \/ c \in UnicodeOnlyWhitespace

AsciiDigits == {"0", "1", "2", "3", "4", "5", "6", "7", "8", "9"}

\* Characters of the Unicode categories Nd, Nl, No outside ASCII:
\* ARABIC-INDIC DIGIT THREE and VULGAR FRACTION ONE HALF.
NonAsciiNumeric == {"U+0663", "U+00BD"}

\* char::is_numeric.
IsNumeric(c) == c \in AsciiDigits \/ c \in NonAsciiNumeric

\* char::to_digit(10): Some(d) for an ASCII digit (d >= 0), None (here -1)
\* for anything else.
ToDigit(c) ==
    CASE c = "0" -> 0 [] c = "1" -> 1 [] c = "2" -> 2 [] c = "3" -> 3
      [] c = "4" -> 4 [] c = "5" -> 5 [] c = "6" -> 6 [] c = "7" -> 7
      [] c = "8" -> 8 [] c = "9" -> 9 [] OTHER -> -1

(***************************************************************************)
(* enum JsonValue.                                                          *)
(***************************************************************************)
JsonNull == [t |-> "Null"]

JsonBoolean(b) == [t |-> "Boolean", b |-> b]

JsonString(s) == [t |-> "String", s |-> s]

JsonNumber(n) == [t |-> "Number", n |-> n]

JsonArray(a) == [t |-> "Array", a |-> a]

JsonObject(m) == [t |-> "Object", m |-> m]

(***************************************************************************)
(* enum NextValueError and Result.                                          *)
(***************************************************************************)
Eof == [kind |-> "Eof", msg |-> ""]

ParseError(m) == [kind |-> "ParseError", msg |-> m]

Ok(v) == [tag |-> "Ok", val |-> v]

Err(e) == [tag |-> "Err", val |-> e]

\* No call of next_value has returned, or its Result has been taken.
NoRet == [tag |-> "none", val |-> Eof]

(***************************************************************************)
(* HashMap<String, JsonValue>: a function from its keys.                    *)
(***************************************************************************)
EmptyMap == << >>

\* A wrong insert, which keeps the value the key had: C5 tells it apart.
MapInsertKeepFirst(m, k, v) ==
    [x \in (DOMAIN m) \cup {k} |-> IF x \in DOMAIN m THEN m[x] ELSE v]

\* HashMap::insert: the new value replaces the value the key had.
MapInsert(m, k, v) ==
    [x \in (DOMAIN m) \cup {k} |-> IF x = k THEN v ELSE m[x]]

(***************************************************************************)
(* The cursor: Peekable<Chars>.                                             *)
(***************************************************************************)
\* The next character is known: it is revealed, or the text has ended.
Ready == pos < Len(input) \/ eof

\* self.input.peek().copied()
Peek == IF pos < Len(input) THEN input[pos + 1] ELSE None

\* The position after self.input.next(): past the end it stays.
Advance == IF pos < Len(input) THEN pos + 1 ELSE pos


(***************************************************************************)
(* The texts the environment supplies to the full parser: the               *)
(* concatenations of at most MaxTokens pieces, a piece being one of Tokens  *)
(* or, after an odd number of quotes (inside a string, as the parser has    *)
(* no escapes), one of StringTokens.                                        *)
(***************************************************************************)
Tokens ==
    { <<" ">>, <<",">>, <<"[">>, <<"]">>, <<"{">>, <<"}">>, <<":">>,
      <<QUOTE, "a", QUOTE>>, <<QUOTE, "b", QUOTE>>, <<QUOTE>>,
      <<"1">>, <<"2">>, <<"-">>, <<"e">>,
      <<"n", "u", "l", "l">>, <<"t", "r", "u", "e">>,
      <<"f", "a", "l", "s", "e">>, <<"U+0663">>,
      <<QUOTE, "a", QUOTE, ":", "1">>, <<QUOTE, "a", QUOTE, ":", "2">> }

StringTokens == { <<QUOTE>>, <<"a">>, <<BACKSLASH>> }

\* The number of quotes of a text is odd.
RECURSIVE OddQuotes(_)
OddQuotes(s) ==
    IF s = << >> THEN FALSE
    ELSE (s[Len(s)] = QUOTE) # OddQuotes(SubSeq(s, 1, Len(s) - 1))

\* The pieces that may follow the text s.
Pieces(s) == IF OddQuotes(s) THEN StringTokens ELSE Tokens

(***************************************************************************)
(* Locals of expect_next and of the keyword arms of next_value.             *)
(***************************************************************************)
NoLit == [kw |-> "", i |-> 0]

\* The literal handed to expect_next, as its characters.
LitText(kw) ==
    CASE kw = "null" -> <<"n", "u", "l", "l">>
      [] kw = "false" -> <<"f", "a", "l", "s", "e">>
      [] kw = "true" -> <<"t", "r", "u", "e">>
      [] OTHER -> << >>

\* The value a keyword arm returns when the literal and its residual match.
LitValue(kw) ==
    CASE kw = "null" -> JsonNull
      [] kw = "false" -> JsonBoolean(FALSE)
      [] OTHER -> JsonBoolean(TRUE)

\* The error a keyword arm returns otherwise.
LitError(kw) ==
    CASE kw = "null" -> ParseError("Got invalid identifier 1")
      [] kw = "false" -> ParseError("Got invalid identifier 2")
      [] OTHER -> ParseError("Got invalid identifier 3")

(***************************************************************************)
(* Locals of next_number.  scientific_exponent is a u32, kept as two        *)
(* 16-bit halves; num is the f64 accumulator, an integer while it is        *)
(* exact; decimal_mult = 0.1^frac is kept as frac.                          *)
(***************************************************************************)
Half == 65536

U32(hi, lo) == [hi |-> hi, lo |-> lo]

\* x * 10 in u32: the wrapped product and whether it overflowed.
U32MulTen(x) ==
    LET t == x.lo * 10
        h == x.hi * 10 + (t \div Half)
    IN  [v |-> U32(h % Half, t % Half), overflow |-> h >= Half]

\* x + d in u32, d a digit: the wrapped sum and whether it overflowed.
U32AddDigit(x, d) ==
    LET t == x.lo + d
        h == x.hi + (t \div Half)
    IN  [v |-> U32(h % Half, t % Half), overflow |-> h >= Half]

\* x as i32: the same 32 bits read as two's complement.
AsI32(x) ==
    IF x.hi >= Half \div 2 THEN (x.hi - Half) * Half + x.lo
    ELSE x.hi * Half + x.lo

NumberLocals ==
    [is_negative |-> FALSE, is_scientific_notation |-> FALSE,
     holds_value |-> FALSE, is_decimal_part |-> FALSE,
     is_positive_scientific_exponential |-> TRUE,
     num |-> 0, frac |-> 0, scientific_exponent |-> U32(0, 0)]

\* The f64 next_number returns, as the expression that computes it:
\* (-)num * 0.1^frac, then * or / 10^exp when sci.
NumberResult(n) ==
    IF ~n.is_scientific_notation
    THEN [neg |-> n.is_negative, mant |-> n.num, frac |-> n.frac,
          sci |-> FALSE, epos |-> TRUE, exp |-> 0]
    ELSE [neg |-> n.is_negative, mant |-> n.num, frac |-> n.frac,
          sci |-> TRUE, epos |-> n.is_positive_scientific_exponential,
          exp |-> AsI32(n.scientific_exponent)]

\* next_value's arm for a number: Ok(n) becomes Number(n).
NumberOk(n) == Ok(JsonNumber(NumberResult(n)))

\* next_value's arm for a number: an error e of next_number is formatted
\* with {:#?} into a new ParseError.
NumberErr(m) ==
    Err(ParseError("parse number error: ParseError(\n    \"" \o m \o "\",\n)"))

(***************************************************************************)
(* Frames of next_array and next_object: their locals, and trace, the       *)
(* history of what the loop has taken from the text (a value returned by    *)
(* next_value, a comma, a colon), which the code does not keep.             *)
(***************************************************************************)
ArrayFrame ==
    [fn |-> "next_array", accepts_closing |-> TRUE, accepts_comma |-> FALSE,
     accepts_value |-> TRUE, last_was_comma |-> FALSE, values |-> << >>,
     trace |-> << >>]

ObjectFrame ==
    [fn |-> "next_object", accepts_closing |-> TRUE, accepts_comma |-> FALSE,
     accepts_key |-> TRUE, accepts_value |-> FALSE, last_was_comma |-> FALSE,
     last_was_colon |-> FALSE, last_key |-> << >>, map |-> EmptyMap,
     trace |-> << >>]

TookValue(v) == [k |-> "value", v |-> v]

TookComma == [k |-> "comma", v |-> JsonNull]

TookColon == [k |-> "colon", v |-> JsonNull]

Top == stack[Len(stack)]

Pop == SubSeq(stack, 1, Len(stack) - 1)

\* The stack with its top frame replaced by f.
SetTop(f) == [stack EXCEPT ![Len(stack)] = f]

(***************************************************************************)
(* The initial state: main builds the Lexer and calls next_value.           *)
(***************************************************************************)
Init ==
    /\ input = << >>
    /\ eof = FALSE
    /\ pos = 0
    /\ fed = 0
    /\ pc = "next_value"
    /\ stack = << >>
    /\ str = << >>
    /\ lit = NoLit
    /\ num = NumberLocals
    /\ ret = NoRet

\* The functions that peek at the text.
Peeking == {"next_value", "next_array", "next_object", "next_string",
            "expect_next", "validate_residuals", "next_number",
            "number_exponent"}

(***************************************************************************)
(* The environment: the text behind the cursor.                             *)
(***************************************************************************)
Feed ==
    /\ pc \in Peeking
    /\ ~Ready
    /\ fed < MaxTokens
    /\ \E tok \in Pieces(input) : input' = input \o tok
    /\ fed' = fed + 1
    /\ UNCHANGED <<eof, pos, pc, stack, str, lit, num, ret>>

EndOfText ==
    /\ pc \in Peeking
    /\ ~Ready
    /\ eof' = TRUE
    /\ UNCHANGED <<input, pos, fed, pc, stack, str, lit, num, ret>>

(***************************************************************************)
(* The texts the environment supplies to the number parser: at most         *)
(* MaxNumLen characters of NumberChars, and after those, when an exponent   *)
(* marker is among them, at most MaxNines times the digit '9' (the digits   *)
(* of an exponent are kept in 32 bits).                                     *)
(***************************************************************************)
NumberChars ==
    {"-", "+", ".", "e", "E", "0", "2", "9", ",", " ", "x",
     "U+0663", "U+00BD"}

HasExponent(s) == \E i \in 1..Len(s) : s[i] \in {"e", "E"}

FeedNumber ==
    /\ pc \in Peeking
    /\ ~Ready
    /\ \E c \in NumberChars :
         /\ \/ fed < MaxNumLen
            \/ /\ fed < MaxNumLen + MaxNines
               /\ c = "9"
               /\ HasExponent(input)
         /\ input' = Append(input, c)
    /\ fed' = fed + 1
    /\ UNCHANGED <<eof, pos, pc, stack, str, lit, num, ret>>

(***************************************************************************)
(* next_whitespaces: one iteration of its loop that consumes a character.   *)
(* It is called first in next_value, in validate_residuals and in every     *)
(* iteration of the loops of next_array and next_object.                    *)
(***************************************************************************)
SkipsWhitespace == {"next_value", "validate_residuals", "next_array",
                    "next_object"}

NextWhitespaces ==
    /\ pc \in SkipsWhitespace
    /\ Ready
    /\ IsAsciiWhitespace(Peek)
    /\ pos' = pos + 1
    /\ UNCHANGED <<input, eof, fed, pc, stack, str, lit, num, ret>>

(***************************************************************************)
(* next_value, after next_whitespaces: the match on the peeked character.   *)
(* The arms that call next_object, next_array and next_string include the   *)
(* callee's first statement, which consumes the opening character.          *)
(***************************************************************************)
NextValue ==
    /\ pc = "next_value"
    /\ Ready
    /\ ~IsAsciiWhitespace(Peek)
    /\ LET c == Peek IN
       CASE c = None ->
              /\ ret' = Err(Eof)
              /\ pc' = "return"
              /\ UNCHANGED <<pos, stack, str, lit, num>>
         [] c = "-" \/ (c # None /\ IsNumeric(c)) ->
              /\ num' = NumberLocals
              /\ pc' = "next_number"
              /\ UNCHANGED <<pos, stack, str, lit, ret>>
         [] c = "{" ->
              /\ pos' = pos + 1
              /\ stack' = Append(stack, ObjectFrame)
              /\ pc' = "next_object"
              /\ UNCHANGED <<str, lit, num, ret>>
         [] c = "[" ->
              /\ pos' = pos + 1
              /\ stack' = Append(stack, ArrayFrame)
              /\ pc' = "next_array"
              /\ UNCHANGED <<str, lit, num, ret>>
         [] c = QUOTE ->
              /\ pos' = pos + 1
              /\ str' = << >>
              /\ pc' = "next_string"
              /\ UNCHANGED <<stack, lit, num, ret>>
         [] c = "n" ->
              /\ lit' = [kw |-> "null", i |-> 0]
              /\ pc' = "expect_next"
              /\ UNCHANGED <<pos, stack, str, num, ret>>
         [] c = "f" ->
              /\ lit' = [kw |-> "false", i |-> 0]
              /\ pc' = "expect_next"
              /\ UNCHANGED <<pos, stack, str, num, ret>>
         [] c = "t" ->
              /\ lit' = [kw |-> "true", i |-> 0]
              /\ pc' = "expect_next"
              /\ UNCHANGED <<pos, stack, str, num, ret>>
         [] OTHER ->
              /\ ret' = Err(ParseError("unexpected character: " \o c))
              /\ pc' = "return"
              /\ UNCHANGED <<pos, stack, str, lit, num>>
    /\ UNCHANGED <<input, eof, fed>>

(***************************************************************************)
(* expect_next: one iteration of its loop.  e is the next expected          *)
(* character, c the next character of the text; next() on an exhausted      *)
(* iterator returns None and changes nothing.                               *)
(***************************************************************************)
\* A wrong expect_next, which consumes the character it fails on: C16 tells
\* it apart.
ExpectNextEager ==
    /\ pc = "expect_next"
    /\ Ready
    /\ LET text == LitText(lit.kw)
           e == IF lit.i < Len(text) THEN text[lit.i + 1] ELSE None
           c == Peek
       IN  IF e = c
           THEN /\ pos' = Advance
                /\ lit' = [lit EXCEPT !.i = IF e = None THEN @ ELSE @ + 1]
                /\ UNCHANGED <<pc, ret>>
           ELSE IF e = None
           THEN /\ pc' = "validate_residuals"
                /\ UNCHANGED <<pos, lit, ret>>
           ELSE /\ ret' = Err(LitError(lit.kw))
                /\ lit' = NoLit
                /\ pc' = "return"
                /\ pos' = Advance
    /\ UNCHANGED <<input, eof, fed, stack, str, num>>

ExpectNext ==
    /\ pc = "expect_next"
    /\ Ready
    /\ LET text == LitText(lit.kw)
           e == IF lit.i < Len(text) THEN text[lit.i + 1] ELSE None
           c == Peek
       IN  IF e = c
           THEN /\ pos' = Advance
                /\ lit' = [lit EXCEPT !.i = IF e = None THEN @ ELSE @ + 1]
                /\ UNCHANGED <<pc, ret>>
           ELSE IF e = None
           THEN /\ pc' = "validate_residuals"
                /\ UNCHANGED <<pos, lit, ret>>
           ELSE /\ ret' = Err(LitError(lit.kw))
                /\ lit' = NoLit
                /\ pc' = "return"
                /\ UNCHANGED pos
    /\ UNCHANGED <<input, eof, fed, stack, str, num>>

(***************************************************************************)
(* validate_residuals, after next_whitespaces, and the return of the        *)
(* keyword arm of next_value that called it.                                *)
(***************************************************************************)
IsResidual(c) == c \in {None, ",", "}", "]"}

ValidateResiduals ==
    /\ pc = "validate_residuals"
    /\ Ready
    /\ ~IsAsciiWhitespace(Peek)
    /\ ret' = IF IsResidual(Peek) THEN Ok(LitValue(lit.kw))
              ELSE Err(LitError(lit.kw))
    /\ lit' = NoLit
    /\ pc' = "return"
    /\ UNCHANGED <<input, eof, pos, fed, stack, str, num>>

(***************************************************************************)
(* next_string: one iteration of its loop.                                  *)
(***************************************************************************)
\* A wrong next_string, which takes a backslash for an escape and drops it:
\* C17 tells it apart.
NextStringEscapes ==
    /\ pc = "next_string"
    /\ Ready
    /\ LET c == Peek IN
       CASE c = QUOTE ->
              /\ ret' = Ok(JsonString(str))
              /\ str' = << >>
              /\ pc' = "return"
         [] c = None ->
              /\ ret' = Err(ParseError("unexpected EOF while parsing string"))
              /\ str' = << >>
              /\ pc' = "return"
         [] OTHER ->
              /\ str' = IF c = BACKSLASH THEN str ELSE Append(str, c)
              /\ UNCHANGED <<pc, ret>>
    /\ pos' = Advance
    /\ UNCHANGED <<input, eof, fed, stack, lit, num>>

NextString ==
    /\ pc = "next_string"
    /\ Ready
    /\ LET c == Peek IN
       CASE c = QUOTE ->
              /\ ret' = Ok(JsonString(str))
              /\ str' = << >>
              /\ pc' = "return"
         [] c = None ->
              /\ ret' = Err(ParseError("unexpected EOF while parsing string"))
              /\ str' = << >>
              /\ pc' = "return"
         [] OTHER ->
              /\ str' = Append(str, c)
              /\ UNCHANGED <<pc, ret>>
    /\ pos' = Advance
    /\ UNCHANGED <<input, eof, fed, stack, lit, num>>


(***************************************************************************)
(* What one iteration of a loop decides, as a record: k = "loop" (go on     *)
(* with the locals n or the frame f), "return" (with the Result r),         *)
(* "call" (of next_value), "exponent" (the second peek of the arm for       *)
(* 'e' | 'E') or "panic"; eat tells whether the peeked character is         *)
(* consumed.                                                                *)
(***************************************************************************)
Loop(x, eat) == [k |-> "loop", x |-> x, r |-> NoRet, eat |-> eat]

Return(r, eat) == [k |-> "return", x |-> << >>, r |-> r, eat |-> eat]

Call == [k |-> "call", x |-> << >>, r |-> NoRet, eat |-> FALSE]

Panic(eat) == [k |-> "panic", x |-> << >>, r |-> NoRet, eat |-> eat]

(***************************************************************************)
(* next_number: the arms of the match of one iteration of its loop, each    *)
(* giving the set of its possible outcomes, and the arm of next_value that  *)
(* wraps what next_number returns.                                          *)
(***************************************************************************)
\* The input is exhausted, or a value-terminating character is peeked.
NumberEnd(n) ==
    { Return(IF n.holds_value THEN NumberOk(n)
             ELSE NumberErr("expected number got EOF"), FALSE) }

NumberDot(n) ==
    { IF n.is_decimal_part THEN Return(NumberErr("unexpected punto"), TRUE)
      ELSE Loop([n EXCEPT !.is_decimal_part = TRUE], TRUE) }

NumberMinus(n) ==
    { IF n.is_negative THEN Return(NumberErr("double negative"), TRUE)
      ELSE Loop([n EXCEPT !.is_negative = TRUE], TRUE) }

\* A wrong digit arm, in which a digit of the exponent sets holds_value too:
\* C15 tells it apart.
NumberDigitAlwaysHolds(n, c) ==
    LET d == ToDigit(c)
        m == U32MulTen(n.scientific_exponent)
        a == U32AddDigit(m.v, d)
    IN  IF d < 0 THEN { Panic(TRUE) }
        ELSE IF n.is_scientific_notation
        THEN { Loop([n EXCEPT !.scientific_exponent = a.v,
                              !.holds_value = TRUE], TRUE) }
             \cup (IF m.overflow \/ a.overflow THEN { Panic(TRUE) } ELSE {})
        ELSE { Loop([n EXCEPT !.num = @ * 10 + d,
                              !.holds_value = TRUE,
                              !.frac = IF n.is_decimal_part THEN @ + 1 ELSE @],
                    TRUE) }

\* c.to_digit(10).unwrap() panics on None.  The u32 arithmetic on
\* scientific_exponent panics on overflow in a build with overflow checks
\* and wraps in a build without.
NumberDigit(n, c) ==
    LET d == ToDigit(c)
        m == U32MulTen(n.scientific_exponent)
        a == U32AddDigit(m.v, d)
    IN  IF d < 0 THEN { Panic(TRUE) }
        ELSE IF n.is_scientific_notation
        THEN { Loop([n EXCEPT !.scientific_exponent = a.v], TRUE) }
             \cup (IF m.overflow \/ a.overflow THEN { Panic(TRUE) } ELSE {})
        ELSE { Loop([n EXCEPT !.num = @ * 10 + d,
                              !.holds_value = TRUE,
                              !.frac = IF n.is_decimal_part THEN @ + 1 ELSE @],
                    TRUE) }

NumberArm(n, c) ==
    CASE c = None -> NumberEnd(n)
      [] c = "." -> NumberDot(n)
      [] c = "-" -> NumberMinus(n)
      [] c \in {"e", "E"} ->
           { [k |-> "exponent", x |-> n, r |-> NoRet, eat |-> TRUE] }
      [] c \notin {None, ".", "-", "e", "E"} /\ IsNumeric(c) ->
           NumberDigit(n, c)
      [] c \in {",", "]", "}"} \/ IsWhitespace(c) -> NumberEnd(n)
      [] OTHER ->
           { Return(NumberErr("unexpected character: " \o c), FALSE) }

\* The match on the character after 'e' | 'E'.
ExponentArm(n, c) ==
    LET sci(positive) ==
            [n EXCEPT !.is_positive_scientific_exponential = positive,
                      !.is_scientific_notation = TRUE]
    IN  CASE c = "+" -> Loop(sci(TRUE), TRUE)
          [] c \notin {None, "+"} /\ IsNumeric(c) -> Loop(sci(TRUE), FALSE)
          [] c = "-" -> Loop(sci(FALSE), TRUE)
          [] OTHER -> Return(NumberErr("bad science"), FALSE)

NextNumber ==
    /\ pc = "next_number"
    /\ Ready
    /\ \E o \in NumberArm(num, Peek) :
         /\ pos' = IF o.eat THEN pos + 1 ELSE pos
         /\ CASE o.k = "loop" ->
                   num' = o.x /\ UNCHANGED <<pc, ret>>
              [] o.k = "exponent" ->
                   pc' = "number_exponent" /\ UNCHANGED <<num, ret>>
              [] o.k = "return" ->
                   ret' = o.r /\ num' = NumberLocals /\ pc' = "return"
              [] OTHER ->
                   pc' = "panic" /\ UNCHANGED <<num, ret>>
    /\ UNCHANGED <<input, eof, fed, stack, str, lit>>

NumberExponent ==
    /\ pc = "number_exponent"
    /\ Ready
    /\ LET o == ExponentArm(num, Peek) IN
         /\ pos' = IF o.eat THEN pos + 1 ELSE pos
         /\ IF o.k = "loop"
            THEN num' = o.x /\ pc' = "next_number" /\ UNCHANGED ret
            ELSE ret' = o.r /\ num' = NumberLocals /\ pc' = "return"
    /\ UNCHANGED <<input, eof, fed, stack, str, lit>>

(***************************************************************************)
(* next_array: the arms of the match of one iteration of its loop, after    *)
(* next_whitespaces.  What next_array returns, the arm of next_value that   *)
(* called it returns unchanged.                                             *)
(***************************************************************************)
ArrayClose(f) ==
    IF f.last_was_comma THEN Return(Err(ParseError("trailing comma")), FALSE)
    ELSE IF ~f.accepts_closing
    THEN Return(Err(ParseError("unexpected ']'")), FALSE)
    ELSE Return(Ok(JsonArray(f.values)), TRUE)

\* A wrong arm for ',', which takes a comma wherever it stands: C3 tells it
\* apart.
ArrayCommaAnywhere(f) ==
    Loop([f EXCEPT !.accepts_closing = FALSE,
                   !.accepts_comma = FALSE,
                   !.accepts_value = TRUE,
                   !.last_was_comma = TRUE,
                   !.trace = Append(@, TookComma)], TRUE)

ArrayComma(f) ==
    IF ~f.accepts_comma THEN Return(Err(ParseError("unexpected comma")), FALSE)
    ELSE Loop([f EXCEPT !.accepts_closing = FALSE,
                        !.accepts_comma = FALSE,
                        !.accepts_value = TRUE,
                        !.last_was_comma = TRUE,
                        !.trace = Append(@, TookComma)], TRUE)

ArrayEof(f) ==
    Return(Err(ParseError("unexpected EOF while parsing array")), FALSE)

ArrayValue(f) ==
    IF ~f.accepts_value THEN Return(Err(ParseError("unexpected value")), FALSE)
    ELSE Call

\* A wrong match, which leaves last_was_comma as it was: C19 tells it apart.
ArrayTakeKeepsComma(f, r) ==
    IF r.tag = "Ok"
    THEN Loop([f EXCEPT !.values = Append(@, r.val),
                        !.accepts_value = FALSE,
                        !.accepts_comma = TRUE,
                        !.accepts_closing = TRUE,
                        !.trace = Append(@, TookValue(r.val))], FALSE)
    ELSE Return(r, FALSE)

\* A wrong match, which reports an error of next_value as an error of its
\* own: C10 tells it apart.
ArrayTakeOwnError(f, r) ==
    IF r.tag = "Ok"
    THEN Loop([f EXCEPT !.values = Append(@, r.val),
                        !.accepts_value = FALSE,
                        !.accepts_comma = TRUE,
                        !.accepts_closing = TRUE,
                        !.last_was_comma = FALSE,
                        !.trace = Append(@, TookValue(r.val))], FALSE)
    ELSE Return(Err(ParseError("unexpected value")), FALSE)

\* The match on what the call of next_value returned.
ArrayTake(f, r) ==
    IF r.tag = "Ok"
    THEN Loop([f EXCEPT !.values = Append(@, r.val),
                        !.accepts_value = FALSE,
                        !.accepts_comma = TRUE,
                        !.accepts_closing = TRUE,
                        !.last_was_comma = FALSE,
                        !.trace = Append(@, TookValue(r.val))], FALSE)
    ELSE Return(r, FALSE)

ArrayArm(f, c) ==
    CASE c = "]" -> ArrayClose(f)
      [] c = "," -> ArrayComma(f)
      [] c = None -> ArrayEof(f)
      [] OTHER -> ArrayValue(f)

(***************************************************************************)
(* next_object: the arms of the match of one iteration of its loop.         *)
(***************************************************************************)
\* A wrong arm for '}', which does not look at last_was_comma: C4 tells it
\* apart.
ObjectCloseNoTrailing(f) ==
    IF ~f.accepts_closing
    THEN Return(Err(ParseError("unexpected '}'")), FALSE)
    ELSE Return(Ok(JsonObject(f.map)), TRUE)

ObjectClose(f) ==
    IF f.last_was_comma THEN Return(Err(ParseError("trailing comma")), FALSE)
    ELSE IF ~f.accepts_closing
    THEN Return(Err(ParseError("unexpected '}'")), FALSE)
    ELSE Return(Ok(JsonObject(f.map)), TRUE)

ObjectComma(f) ==
    IF ~f.accepts_comma THEN Return(Err(ParseError("unexpected comma")), FALSE)
    ELSE Loop([f EXCEPT !.accepts_closing = FALSE,
                        !.accepts_comma = FALSE,
                        !.accepts_value = FALSE,
                        !.accepts_key = TRUE,
                        !.last_was_comma = TRUE,
                        !.last_was_colon = FALSE,
                        !.trace = Append(@, TookComma)], TRUE)

ObjectColon(f) ==
    IF f.last_was_comma \/ ~f.accepts_value \/ f.last_was_colon
    THEN Return(Err(ParseError("unexpected colon")), FALSE)
    ELSE Loop([f EXCEPT !.last_was_colon = TRUE,
                        !.trace = Append(@, TookColon)], TRUE)

ObjectEof(f) ==
    Return(Err(ParseError("unexpected EOF while parsing array")), FALSE)

\* map.insert(last_key.clone(), value) and the flags set after it.
ObjectInsert(f, v) ==
    [f EXCEPT !.map = MapInsert(@, f.last_key, v),
              !.accepts_value = FALSE,
              !.accepts_key = TRUE,
              !.accepts_comma = TRUE,
              !.accepts_closing = TRUE,
              !.last_was_comma = FALSE,
              !.last_was_colon = FALSE,
              !.trace = Append(@, TookValue(v))]

\* A wrong arm Ok(JsonValue::String(key)), which does not keep the key: C20
\* tells it apart.
ObjectTakeStringNoKey(f, v) ==
    IF f.accepts_key
    THEN Loop([f EXCEPT !.accepts_value = TRUE,
                        !.accepts_key = FALSE,
                        !.accepts_comma = FALSE,
                        !.accepts_closing = FALSE,
                        !.last_was_comma = FALSE,
                        !.last_was_colon = FALSE,
                        !.trace = Append(@, TookValue(v))], FALSE)
    ELSE Loop(ObjectInsert(f, v), FALSE)

\* The arm Ok(JsonValue::String(key)).
ObjectTakeString(f, v) ==
    IF f.accepts_key
    THEN Loop([f EXCEPT !.last_key = v.s,
                        !.accepts_value = TRUE,
                        !.accepts_key = FALSE,
                        !.accepts_comma = FALSE,
                        !.accepts_closing = FALSE,
                        !.last_was_comma = FALSE,
                        !.last_was_colon = FALSE,
                        !.trace = Append(@, TookValue(v))], FALSE)
    ELSE Loop(ObjectInsert(f, v), FALSE)

\* A wrong arm Ok(value), which inserts whatever accepts_value says: C13
\* tells it apart.
ObjectTakeValueAnywhere(f, v) == Loop(ObjectInsert(f, v), FALSE)

\* The arm Ok(value).
ObjectTakeValue(f, v) ==
    IF ~f.accepts_value THEN Return(Err(ParseError("unexpected value")), FALSE)
    ELSE Loop(ObjectInsert(f, v), FALSE)

\* The match on what the call of next_value returned.
ObjectTake(f, r) ==
    IF r.tag = "Ok" /\ r.val.t = "String" THEN ObjectTakeString(f, r.val)
    ELSE IF r.tag = "Ok" THEN ObjectTakeValue(f, r.val)
    ELSE Return(r, FALSE)

ObjectArm(f, c) ==
    CASE c = "}" -> ObjectClose(f)
      [] c = "," -> ObjectComma(f)
      [] c = ":" -> ObjectColon(f)
      [] c = None -> ObjectEof(f)
      [] OTHER -> Call

(***************************************************************************)
(* The loops of next_array and next_object.                                 *)
(***************************************************************************)
\* The outcome o of an iteration of the loop of the top frame.
Iterate(o) ==
    /\ pos' = IF o.eat THEN pos + 1 ELSE pos
    /\ CASE o.k = "loop" -> stack' = SetTop(o.x) /\ UNCHANGED <<pc, ret>>
         [] o.k = "call" -> pc' = "next_value" /\ UNCHANGED <<stack, ret>>
         [] OTHER -> ret' = o.r /\ stack' = Pop /\ pc' = "return"
    /\ UNCHANGED <<input, eof, fed, str, lit, num>>

\* The outcome o of the top frame's match on what next_value returned.
Resume(o) ==
    /\ IF o.k = "loop"
       THEN stack' = SetTop(o.x) /\ ret' = NoRet /\ pc' = Top.fn
       ELSE ret' = o.r /\ stack' = Pop /\ UNCHANGED pc
    /\ UNCHANGED <<input, eof, pos, fed, str, lit, num>>

NextArray ==
    /\ pc = "next_array"
    /\ Ready
    /\ ~IsAsciiWhitespace(Peek)
    /\ Iterate(ArrayArm(Top, Peek))

ArrayResume ==
    /\ pc = "return"
    /\ stack # << >>
    /\ Top.fn = "next_array"
    /\ Resume(ArrayTake(Top, ret))

NextObject ==
    /\ pc = "next_object"
    /\ Ready
    /\ ~IsAsciiWhitespace(Peek)
    /\ Iterate(ObjectArm(Top, Peek))

ObjectResume ==
    /\ pc = "return"
    /\ stack # << >>
    /\ Top.fn = "next_object"
    /\ Resume(ObjectTake(Top, ret))

(***************************************************************************)
(* main: the call of next_value returns to it.                              *)
(***************************************************************************)
MainReturn ==
    /\ pc = "return"
    /\ stack = << >>
    /\ pc' = "done"
    /\ UNCHANGED <<input, eof, pos, fed, stack, str, lit, num, ret>>

\* Every step of the parser.
Parse ==
    \/ NextWhitespaces
    \/ NextValue
    \/ ExpectNext
    \/ ValidateResiduals
    \/ NextString
    \/ NextNumber
    \/ NumberExponent
    \/ NextArray
    \/ ArrayResume
    \/ NextObject
    \/ ObjectResume
    \/ MainReturn

Next == Feed \/ EndOfText \/ Parse

Spec == Init /\ [][Next]_vars

\* next_value on the texts of the number parser.
NumberNext ==
    \/ FeedNumber
    \/ EndOfText
    \/ NextWhitespaces
    \/ NextValue
    \/ NextNumber
    \/ NumberExponent
    \/ MainReturn

NumberSpec == Init /\ [][NumberNext]_vars

(***************************************************************************)
(* The texts the environment supplies to the keyword and string parsers: at *)
(* most MaxLeafLen characters of LeafChars, the letters of the keywords,    *)
(* what a string is made of, and what may follow a value.                   *)
(***************************************************************************)
LeafChars ==
    {"t", "r", "u", "e", "n", "l", "f", "a", "s", QUOTE, BACKSLASH, ",", " "}

FeedLeaf ==
    /\ pc \in Peeking
    /\ ~Ready
    /\ fed < MaxLeafLen
    /\ \E c \in LeafChars : input' = Append(input, c)
    /\ fed' = fed + 1
    /\ UNCHANGED <<eof, pos, pc, stack, str, lit, num, ret>>

\* next_value on the texts of the keyword and string parsers.
LeafNext ==
    \/ FeedLeaf
    \/ EndOfText
    \/ NextWhitespaces
    \/ NextValue
    \/ ExpectNext
    \/ ValidateResiduals
    \/ NextString
    \/ MainReturn

LeafSpec == Init /\ [][LeafNext]_vars

(***************************************************************************)
(* Properties.                                                              *)
(***************************************************************************)
\* No step of the parser changes the state: it has stopped, or it repeats
\* an iteration that changes nothing, for ever.
Stuck == ~ENABLED <<Next>>_vars

\* The first position after i whose character is not ASCII whitespace
\* (Len(s) + 1 when there is none).
RECURSIVE SkipWs(_, _)
SkipWs(s, i) ==
    IF i < Len(s) /\ IsAsciiWhitespace(s[i + 1]) THEN SkipWs(s, i + 1)
    ELSE i + 1

\* C1: for every text the call of next_value returns, a value or an error:
\* the parser never panics, and wherever it makes no more progress it has
\* returned to main.
C1_ParseReturns == pc # "panic" /\ (Stuck => pc = "done")

\* The position of the first character of the text that next_value does
\* not skip.
First == SkipWs(input, 0)

\* The text holds the literal of keyword kw right after its leading
\* whitespace.
KeywordAt(kw) ==
    /\ kw \in {"true", "false", "null"}
    /\ First + Len(LitText(kw)) - 1 <= Len(input)
    /\ SubSeq(input, First, First + Len(LitText(kw)) - 1) = LitText(kw)

\* The position of the first non-whitespace character after that literal.
AfterKeyword(kw) == SkipWs(input, First + Len(LitText(kw)) - 1)

\* The character at position i of the whole text, None past its end; it is
\* known once it is revealed or the text has ended before it.
Known(i) == i <= Len(input) \/ eof

CharAt(i) == IF i <= Len(input) THEN input[i] ELSE None

\* The value the JSON literal kw denotes.
KeywordValue(kw) ==
    CASE kw = "true" -> JsonBoolean(TRUE)
      [] kw = "false" -> JsonBoolean(FALSE)
      [] kw = "null" -> JsonNull

\* The error kind InvalidLiteral.
InvalidLiteral(e) ==
    /\ e.kind = "ParseError"
    /\ e.msg \in {"Got invalid identifier 1", "Got invalid identifier 2",
                  "Got invalid identifier 3"}

\* C2: a text that is whitespace, a keyword, whitespace and then the end of
\* the text or ',', '}' or ']' parses to the keyword's value; when anything
\* else follows, the parse fails with InvalidLiteral.  (Where the parser
\* makes no more progress it has returned that result.)
C2_Keywords ==
    \A kw \in {"true", "false", "null"} :
      (KeywordAt(kw) /\ Known(AfterKeyword(kw)) /\ Stuck) =>
         /\ pc = "done"
         /\ IF CharAt(AfterKeyword(kw)) \in {None, ",", "}", "]"}
            THEN ret = Ok(KeywordValue(kw))
            ELSE ret.tag = "Err" /\ InvalidLiteral(ret.val)

\* The values a loop has taken, in the order it took them.
IsTookValue(e) == e.k = "value"

ValuesOf(trace) ==
    LET vs == SelectSeq(trace, IsTookValue)
    IN  [i \in 1..Len(vs) |-> vs[i].v]

\* A value, then a comma and a value any number of times, or a prefix of
\* that.
ListPrefix(trace) ==
    \A i \in 1..Len(trace) :
      trace[i].k = (IF i % 2 = 1 THEN "value" ELSE "comma")

\* Nothing, or values separated by one comma each.
CompleteList(trace) ==
    ListPrefix(trace) /\ (trace = << >> \/ Len(trace) % 2 = 1)

\* C3: what the array parser has taken is always a prefix of "value, comma,
\* value, ..."; it returns Ok exactly when ']' follows nothing or a list of
\* values separated by one comma each, and then returns those values in
\* source order and consumes the ']'.
C3_ArrayGrammar ==
    /\ [](\A i \in 1..Len(stack) :
            stack[i].fn = "next_array" => ListPrefix(stack[i].trace))
    /\ [][(pc = "next_array" /\ pc' = "return") =>
            /\ ret'.tag = "Ok" <=> (Peek = "]" /\ CompleteList(Top.trace))
            /\ ret'.tag = "Ok" =>
                 /\ ret'.val = JsonArray(ValuesOf(Top.trace))
                 /\ pos' = pos + 1]_vars

\* An array of two elements has been parsed.
C3_Witness ==
    /\ pc = "done"
    /\ ret.tag = "Ok"
    /\ ret.val.t = "Array"
    /\ Len(ret.val.a) = 2
    /\ ret.val.a[1] # ret.val.a[2]

\* The closing bracket of the construct a frame parses.
Closer(f) == IF f.fn = "next_array" THEN "]" ELSE "}"

\* C4: in the array parser and in the object parser, a closing bracket that
\* is the next non-whitespace character after a consumed ',' fails with
\* TrailingComma and is not consumed.
C4_TrailingComma ==
    [][(/\ pc \in {"next_array", "next_object"}
        /\ Ready
        /\ Top.trace # << >>
        /\ Top.trace[Len(Top.trace)].k = "comma"
        /\ Peek = Closer(Top)) =>
          /\ pc' = "return"
          /\ ret' = Err(ParseError("trailing comma"))
          /\ pos' = pos]_vars

\* An object (here) has failed on '}' after a pair and a comma.
C4_Witness ==
    /\ pc = "done"
    /\ ret = Err(ParseError("trailing comma"))
    /\ input[1] = "{"
    /\ Peek = "}"
    /\ input[pos] = ","

\* The mapping of a sequence of keys and values that alternate, in which the
\* last value of a key wins.
LastWins(vs) ==
    LET n == Len(vs) \div 2
        keys == {vs[2 * i - 1].s : i \in 1..n}
        last(k) == CHOOSE i \in 1..n :
                     /\ vs[2 * i - 1].s = k
                     /\ \A j \in 1..n : vs[2 * j - 1].s = k => j <= i
    IN  [k \in keys |-> vs[2 * last(k)]]

\* C5: the values an object parser has taken when it returns Ok are keys
\* (strings) and values in turn, and the mapping it returns has one entry per
\* key text, the value of the last pair with that key.
C5_LastKeyWins ==
    [][(pc = "next_object" /\ pc' = "return" /\ ret'.tag = "Ok") =>
         LET vs == ValuesOf(Top.trace) IN
           /\ Len(vs) % 2 = 0
           /\ \A i \in 1..Len(vs) : i % 2 = 1 => vs[i].t = "String"
           /\ ret'.val = JsonObject(LastWins(vs))]_vars

\* An object with the key "a" twice has been parsed to one entry, the second
\* value.
C5_Witness ==
    /\ pc = "done"
    /\ input = <<"{", QUOTE, "a", QUOTE, ":", "1", ",",
                      QUOTE, "a", QUOTE, ":", "2", "}">>
    /\ ret.tag = "Ok"
    /\ DOMAIN ret.val.m = {<<"a">>}
    /\ ret.val.m[<<"a">>].n.mant = 2

\* C6: the end of the text inside an array or an object fails with the error
\* kind next_value itself reports at the end of the text, and inside a string
\* with UnterminatedString.
C6_EofErrors ==
    [][/\ (pc \in {"next_array", "next_object"} /\ Ready /\ Peek = None) =>
            (pc' = "return" /\ ret'.tag = "Err" /\ ret'.val.kind = Eof.kind)
       /\ (pc = "next_string" /\ Ready /\ Peek = None) =>
            /\ pc' = "return"
            /\ ret' = Err(ParseError("unexpected EOF while parsing string"))
      ]_vars

\* C9: next_value routes on the peeked character: '-' and the ASCII digits
\* to the number parser, the six other leading characters to their parsers,
\* the end of the text to UnexpectedEof, and any other character to
\* UnexpectedCharacter without consuming it.
C9_Dispatch ==
    [][(pc = "next_value" /\ Ready /\ ~IsAsciiWhitespace(Peek)) =>
         LET c == Peek IN
         CASE c = None -> pc' = "return" /\ ret' = Err(Eof) /\ pos' = pos
           [] c = "-" \/ c \in AsciiDigits -> pc' = "next_number"
           [] c = "{" -> pc' = "next_object"
           [] c = "[" -> pc' = "next_array"
           [] c = QUOTE -> pc' = "next_string"
           [] c = "n" -> pc' = "expect_next" /\ lit'.kw = "null"
           [] c = "f" -> pc' = "expect_next" /\ lit'.kw = "false"
           [] c = "t" -> pc' = "expect_next" /\ lit'.kw = "true"
           [] OTHER ->
                /\ pc' = "return"
                /\ ret' = Err(ParseError("unexpected character: " \o c))
                /\ pos' = pos]_vars

\* C10: an error that next_value returns to an array or object parser is
\* returned by that parser at once and as it is: nothing more is read or
\* consumed and the frame is dropped.
C10_ErrorPropagates ==
    [][(pc = "return" /\ ret.tag = "Err" /\ stack # << >>) =>
         /\ ret' = ret
         /\ pc' = "return"
         /\ stack' = Pop
         /\ pos' = pos
         /\ input' = input
         /\ eof' = eof]_vars

\* The error of a string that the text ends in has come up to main through
\* an object inside an array.
C10_Witness ==
    /\ pc = "done"
    /\ ret = Err(ParseError("unexpected EOF while parsing string"))
    /\ Len(input) >= 3
    /\ input[1] = "["
    /\ input[2] = "{"
    /\ input[3] = QUOTE

(***************************************************************************)
(* Properties of the number parser, on the texts of NumberSpec: the text    *)
(* after its leading whitespace is what next_number reads.                  *)
(***************************************************************************)
\* What next_number has consumed.
Consumed == SubSeq(input, First, pos)

\* The '-' of s that the sign rule sees: those not taken as the sign of an
\* exponent, right after 'e' or 'E'.
SignDashes(s) ==
    {i \in 1..Len(s) : s[i] = "-" /\ (i = 1 \/ s[i - 1] \notin {"e", "E"})}

Dots(s) == {i \in 1..Len(s) : s[i] = "."}

\* The digits: the ASCII digits and, read generously, the decimal digits of
\* other scripts.
Digits == AsciiDigits \cup {"U+0663"}

\* next_value has returned the error of next_number with message m.
NumberFailed(m) == pc \in {"return", "done"} /\ ret = NumberErr(m)

\* C7: a second '-' seen by the sign rule fails with DoubleNegative, a second
\* '.' with UnexpectedDecimalPoint, and an 'e' or 'E' that is followed by
\* neither '+', '-' nor a digit (the end of the text included) with
\* MalformedExponent, each at the offending character whatever was consumed
\* before it.
C7_NumberErrors ==
    LET s == Consumed
        n == Len(s)
    IN  /\ Cardinality(SignDashes(s)) >= 2 =>
             /\ NumberFailed("double negative")
             /\ Cardinality(SignDashes(SubSeq(s, 1, n - 1))) = 1
        /\ Cardinality(Dots(s)) >= 2 =>
             /\ NumberFailed("unexpected punto")
             /\ Cardinality(Dots(SubSeq(s, 1, n - 1))) = 1
        /\ (/\ n > 0
            /\ s[n] \in {"e", "E"}
            /\ Ready
            /\ pc # "number_exponent"
            /\ Peek \notin {"+", "-"} \cup Digits) =>
             NumberFailed("bad science")

\* The last position of the run of ASCII digits of s that starts at
\* position from (from - 1 when there is none).
RECURSIVE RunEnd(_, _)
RunEnd(s, from) ==
    IF from <= Len(s) /\ s[from] \in AsciiDigits THEN RunEnd(s, from + 1)
    ELSE from - 1

\* The number a sequence of ASCII digits denotes.
RECURSIVE DecimalValue(_)
DecimalValue(ds) ==
    IF ds = << >> THEN 0
    ELSE DecimalValue(SubSeq(ds, 1, Len(ds) - 1)) * 10 + ToDigit(ds[Len(ds)])

\* A sequence of digits without its leading zeros (the last digit stays).
RECURSIVE StripZeros(_)
StripZeros(ds) ==
    IF Len(ds) > 1 /\ ds[1] = "0" THEN StripZeros(Tail(ds)) ELSE ds

DigitChar(d) == CHOOSE c \in AsciiDigits : ToDigit(c) = d

\* The decimal digits of a natural number.
RECURSIVE DecimalDigits(_)
DecimalDigits(n) ==
    IF n < 10 THEN <<DigitChar(n)>>
    ELSE Append(DecimalDigits(n \div 10), DigitChar(n % 10))

\* The parts of a numeric literal s: an optional '-', integer digits, an
\* optional '.' with fraction digits, an optional exponent with an optional
\* sign and digits; ok when s is all of that.
Literal(s) ==
    LET neg == Len(s) > 0 /\ s[1] = "-"
        i0 == IF neg THEN 2 ELSE 1
        i1 == RunEnd(s, i0)
        dot == i1 < Len(s) /\ s[i1 + 1] = "."
        f1 == IF dot THEN RunEnd(s, i1 + 2) ELSE i1
        ex == f1 < Len(s) /\ s[f1 + 1] \in {"e", "E"}
        sg == ex /\ f1 + 1 < Len(s) /\ s[f1 + 2] \in {"+", "-"}
        x0 == IF sg THEN f1 + 3 ELSE f1 + 2
        x1 == IF ex THEN RunEnd(s, x0) ELSE f1
    IN  [ok |-> /\ i1 >= i0
                /\ dot => f1 >= i1 + 2
                /\ ex => x1 >= x0
                /\ x1 = Len(s),
         neg |-> neg,
         mantissa |-> SubSeq(s, i0, i1) \o
                      (IF dot THEN SubSeq(s, i1 + 2, f1) ELSE << >>),
         fraction |-> IF dot THEN f1 - (i1 + 1) ELSE 0,
         ex |-> ex,
         positive |-> ~(sg /\ s[f1 + 2] = "-"),
         exponent |-> IF ex THEN SubSeq(s, x0, x1) ELSE << >>]

\* f is the value of the literal with parts l: (-)mantissa * 10^-fraction,
\* times or divided by 10^exponent.
IsValueOf(f, l) ==
    /\ f.neg = l.neg
    /\ f.mant = DecimalValue(l.mantissa)
    /\ f.frac = l.fraction
    /\ f.sci = l.ex
    /\ l.ex => /\ f.epos = l.positive
               /\ f.exp >= 0
               /\ DecimalDigits(f.exp) = StripZeros(l.exponent)

\* The last character of the text is one that ends a number.
EndsWithTerminator ==
    input # << >> /\ input[Len(input)] \in {",", "]", "}", " "}

\* The text is a literal and a terminating character, or is known to have
\* ended.
Terminated == eof \/ EndsWithTerminator

\* The text after its leading whitespace, without the terminating character.
WholeLiteral ==
    SubSeq(input, First,
           IF EndsWithTerminator THEN Len(input) - 1 ELSE Len(input))

\* C8: a well-formed numeric literal parses to the value of its parts.
C8_NumberValue ==
    (Terminated /\ Literal(WholeLiteral).ok) =>
       /\ pc # "panic"
       /\ Stuck => /\ pc = "done"
                   /\ ret.tag = "Ok"
                   /\ ret.val.t = "Number"
                   /\ IsValueOf(ret.val.n, Literal(WholeLiteral))

(***************************************************************************)
(* Properties of the object parser, on what its loop has taken (trace).     *)
(***************************************************************************)
IsNotComma(e) == e.k # "comma"

\* What a loop has taken, its commas left out.
WithoutCommas(trace) == SelectSeq(trace, IsNotComma)

\* Key, colon, value any number of times, or a prefix of that; the keys are
\* strings.
TriplesPrefix(t) ==
    \A i \in 1..Len(t) :
      /\ t[i].k = (IF i % 3 = 2 THEN "colon" ELSE "value")
      /\ i % 3 = 1 => t[i].v.t = "String"

\* C11: what the object parser takes between its commas is a key, then one
\* ':', then a value, in that order: no value is taken right after a key.
C11_KeyColonValue ==
    \A i \in 1..Len(stack) :
      stack[i].fn = "next_object" =>
        TriplesPrefix(WithoutCommas(stack[i].trace))

\* The loop has just taken the value of a pair: the last thing taken is a
\* value and the values taken, keys and values in turn, are even in number.
PairComplete(trace) ==
    /\ trace # << >>
    /\ trace[Len(trace)].k = "value"
    /\ Len(ValuesOf(trace)) % 2 = 0

\* C12: after the value of a pair the object parser takes nothing but a
\* ',' (or ends at '}'): whatever else comes next, a further key included,
\* is not taken.
C12_CommaBetweenPairs ==
    \A i \in 1..Len(stack) :
      stack[i].fn = "next_object" =>
        LET t == stack[i].trace IN
        \A j \in 1..(Len(t) - 1) :
          PairComplete(SubSeq(t, 1, j)) => t[j + 1].k = "comma"

\* The next value the loop takes stands in key position: the values taken so
\* far, keys and values in turn, are even in number.
KeySlot(trace) == Len(ValuesOf(trace)) % 2 = 0

\* next_value has returned a value that is not a string to an object parser
\* whose next value stands in key position.
NonStringKey ==
    /\ pc = "return"
    /\ stack # << >>
    /\ Top.fn = "next_object"
    /\ ret.tag = "Ok"
    /\ ret.val.t # "String"
    /\ KeySlot(Top.trace)

\* C13, as claimed: a value in key position that is not a string is not
\* rejected by the object parser, which goes on with its loop.
C13_NonStringKeyKept ==
    [][NonStringKey => (pc' = "next_object" /\ Len(stack') = Len(stack))]_vars

\* C13, as the code has it: a value in key position that is not a string
\* makes the object parser fail with UnexpectedValue; nothing is inserted and
\* nothing more is consumed.
C13_NonStringKeyRejected ==
    [][NonStringKey =>
         /\ pc' = "return"
         /\ ret' = Err(ParseError("unexpected value"))
         /\ stack' = Pop
         /\ pos' = pos]_vars

\* The object parser has rejected null in the place of its first key.
C13_Witness ==
    /\ pc = "done"
    /\ ret = Err(ParseError("unexpected value"))
    /\ Len(input) >= 5
    /\ SubSeq(input, 1, 5) = <<"{", "n", "u", "l", "l">>

(***************************************************************************)
(* The flags of the loops of next_array and next_object.                    *)
(***************************************************************************)
\* C19: in every array parser, closing is refused exactly after a comma and
\* a value is accepted exactly when a comma is not; so the array parser never
\* reports UnexpectedClosingBracket.
C19_ArrayFlags ==
    /\ \A i \in 1..Len(stack) :
         stack[i].fn = "next_array" =>
           /\ ~stack[i].accepts_closing <=> stack[i].last_was_comma
           /\ stack[i].accepts_value <=> ~stack[i].accepts_comma
    /\ ret # Err(ParseError("unexpected ']'"))

\* An array parser that refuses closing, after a value and a comma, has seen
\* ']' and reported TrailingComma.
C19_Witness ==
    /\ pc = "return"
    /\ ret = Err(ParseError("trailing comma"))
    /\ Peek = "]"
    /\ input[1] = "["
    /\ stack = << >>

\* C20: in every object parser a key is accepted exactly when a value is
\* not; a value taken in value position is inserted under the string taken
\* just before it, which is the pending key, and a value taken in key
\* position inserts nothing.
C20_PendingKey ==
    /\ [](\A i \in 1..Len(stack) :
            stack[i].fn = "next_object" =>
              (stack[i].accepts_key <=> ~stack[i].accepts_value))
    /\ [][(/\ pc = "return"
           /\ stack # << >>
           /\ Top.fn = "next_object"
           /\ ret.tag = "Ok") =>
            LET vs == ValuesOf(Top.trace)
                key == vs[Len(vs)]
            IN  IF KeySlot(Top.trace)
                THEN Len(stack') = Len(stack) =>
                       stack'[Len(stack)].map = Top.map
                ELSE /\ key.t = "String"
                     /\ Top.last_key = key.s
                     /\ Len(stack') = Len(stack)
                     /\ stack'[Len(stack)].map =
                          MapInsert(Top.map, key.s, ret.val)]_vars

\* Two pairs have been inserted, each under its own key.
C20_Witness ==
    /\ pc = "next_object"
    /\ input = <<"{", QUOTE, "a", QUOTE, ":", "1", ",",
                      QUOTE, "b", QUOTE, ":", "2">>
    /\ DOMAIN Top.map = {<<"a">>, <<"b">>}
    /\ Top.map[<<"a">>].n.mant = 1
    /\ Top.map[<<"b">>].n.mant = 2

(***************************************************************************)
(* Further properties of the number parser, on the texts of NumberSpec.     *)
(***************************************************************************)
\* C14: once a digit has been consumed, a '-' that is not the sign of the
\* exponent is not accepted: the number parser has failed.
C14_SignBeforeDigits ==
    (\E i \in SignDashes(Consumed) :
       \E j \in 1..(i - 1) : Consumed[j] \in AsciiDigits) =>
      (pc \in {"return", "done"} /\ ret.tag = "Err")

\* The positions of the ASCII digits of s.
DigitsIn(s) == {i \in 1..Len(s) : s[i] \in AsciiDigits}

\* Those of its integer and fraction sections: the ones with no 'e' or 'E'
\* before them.
MantissaDigitsIn(s) ==
    {i \in DigitsIn(s) : \A j \in 1..(i - 1) : s[j] \notin {"e", "E"}}

\* A character that ends a number, the end of the text included.
EndsNumber(c) == c \in {None, ",", "]", "}"} \/ IsWhitespace(c)

\* The error kind EmptyNumber, as next_value returns it.
EmptyNumber == NumberErr("expected number got EOF")

\* C15, as claimed: has_digits tells whether an ASCII digit has been
\* consumed, in whichever section; at a character that ends a number the
\* parser returns a number if a digit has been consumed and EmptyNumber if
\* none has, and leaves that character.
C15_AnyDigitHolds ==
    /\ [](pc = "next_number" =>
            (num.holds_value <=> DigitsIn(Consumed) # {}))
    /\ [][(pc = "next_number" /\ Ready /\ EndsNumber(Peek)) =>
            /\ pc' = "return"
            /\ pos' = pos
            /\ IF DigitsIn(Consumed) # {} THEN ret'.tag = "Ok"
               ELSE ret' = EmptyNumber]_vars

\* C15, as the code has it: has_digits tells whether a digit of the integer
\* or fraction section has been consumed; the digits of the exponent do not
\* count.
C15_MantissaDigitHolds ==
    /\ [](pc = "next_number" =>
            (num.holds_value <=> MantissaDigitsIn(Consumed) # {}))
    /\ [][(pc = "next_number" /\ Ready /\ EndsNumber(Peek)) =>
            /\ pc' = "return"
            /\ pos' = pos
            /\ IF MantissaDigitsIn(Consumed) # {} THEN ret'.tag = "Ok"
               ELSE ret' = EmptyNumber]_vars

\* A text with exponent digits and no other digit has failed with
\* EmptyNumber at its end.
C15_Witness ==
    /\ pc = "done"
    /\ ret = EmptyNumber
    /\ input = <<"-", "e", "2">>
    /\ pos = 3

IsAsciiDigit(c) == c \in AsciiDigits

\* The digits of the exponent among the characters s: the ASCII digits after
\* the first 'e' or 'E', in order.
ExponentDigits(s) ==
    LET marks == {i \in 1..Len(s) : s[i] \in {"e", "E"}}
        first == CHOOSE i \in marks : \A j \in marks : i <= j
    IN  IF marks = {} THEN << >>
        ELSE SelectSeq(SubSeq(s, first + 1, Len(s)), IsAsciiDigit)

\* C18: the exponent counter, read as the signed integer the power takes, is
\* the decimal value of the exponent digits consumed, however many they are:
\* no digit makes the arithmetic overflow (a panic on consuming a digit) or
\* wrap, and the cast does not make it negative.
C18_ExponentExact ==
    /\ ~(pc = "panic" /\ pos > 0 /\ input[pos] \in AsciiDigits)
    /\ (pc = "next_number" /\ num.is_scientific_notation) =>
         LET run == ExponentDigits(Consumed)
             e == AsI32(num.scientific_exponent)
         IN  /\ e >= 0
             /\ DecimalDigits(e) = StripZeros(IF run = << >> THEN <<"0">>
                                              ELSE run)

(***************************************************************************)
(* Properties of the keyword and string parsers, on the texts of LeafSpec.  *)
(***************************************************************************)
\* C16: expect_next consumes a character exactly when it is the next one of
\* the literal; it returns success only when the whole literal has been
\* consumed, and failure at the first character that differs, or the end of
\* the text, before that, with what matched consumed and nothing more.
C16_ExpectNext ==
    [][(pc = "expect_next" /\ Ready) =>
         LET text == LitText(lit.kw)
             k == lit.i
         IN  /\ pos' # pos =>
                  /\ k < Len(text)
                  /\ Peek = text[k + 1]
                  /\ pos' = pos + 1
                  /\ pc' = "expect_next"
                  /\ lit'.i = k + 1
             /\ pc' = "validate_residuals" =>
                  /\ k = Len(text)
                  /\ pos >= k
                  /\ SubSeq(input, pos - k + 1, pos) = text
             /\ pc' = "return" =>
                  /\ ret'.tag = "Err"
                  /\ k < Len(text)
                  /\ Peek # text[k + 1]
                  /\ pos' = pos
                  /\ pos >= k
                  /\ SubSeq(input, pos - k + 1, pos) = SubSeq(text, 1, k)]_vars

\* expect_next has failed on the fourth character of "nula", with three
\* characters consumed.
C16_Witness ==
    /\ pc = "done"
    /\ input = <<"n", "u", "l", "a">>
    /\ pos = 3
    /\ ret = Err(ParseError("Got invalid identifier 1"))

\* The positions of the quotes of the text after the one that opens it.
LaterQuotes == {j \in (First + 1)..Len(input) : input[j] = QUOTE}

\* The first of them.
ClosingQuote == CHOOSE j \in LaterQuotes : \A i \in LaterQuotes : j <= i

\* C17: a text that opens with '"' and has another '"' parses to the
\* characters between the opening quote and the first quote after it, as they
\* are, and the cursor is left right after that quote.
C17_StringText ==
    (/\ First <= Len(input)
     /\ input[First] = QUOTE
     /\ LaterQuotes # {}) =>
       /\ pos <= ClosingQuote
       /\ Stuck =>
            /\ pc = "done"
            /\ ret = Ok(JsonString(SubSeq(input, First + 1, ClosingQuote - 1)))
            /\ pos = ClosingQuote

\* The string of one backslash has been parsed: the quote after the
\* backslash has ended it.
C17_Witness ==
    /\ pc = "done"
    /\ input = <<QUOTE, BACKSLASH, QUOTE>>
    /\ ret = Ok(JsonString(<<BACKSLASH>>))
    /\ pos = 3

=============================================================================
